---- MODULE Spec2Model ----
(***************************************************************************)
(* Hybrid grep extension (src/grep.ts): the contention gate shared by      *)
(* query-bearing grep calls and lsp references calls, and the routing of   *)
(* execute between ripgrep and colgrep with its fallback.                  *)
(*                                                                         *)
(* A JavaScript string is modelled as a tuple of one-character strings, so *)
(* that toLowerCase, includes and trim are computed rather than assumed.   *)
(* A parameter object is a record whose domain holds the fields present.   *)
(***************************************************************************)
EXTENDS Integers, Sequences, FiniteSets, TLC

(***************************************************************************)
(* Bounds of the model.                                                    *)
(***************************************************************************)
\* Number of tool calls the host issues in one behaviour of Spec.
MaxCalls == 2

\* The longest glob specification enumerated.
MaxGlobLen == 3

\* The most files in an enumerated rg output.
MaxFiles == 2

\* The largest offset requested.
MaxOffset == 5

(***************************************************************************)
(* Strings.                                                                *)
(***************************************************************************)
\* The characters of a string literal, one per element.
Str(s) == [i \in 1..Len(s) |-> SubSeq(s, i, i)]

UpperChars == Str("ABCDEFGHIJKLMNOPQRSTUVWXYZ")

LowerChars == Str("abcdefghijklmnopqrstuvwxyz")

DigitChars == Str("0123456789")

IsDigit(c) == \E i \in 1..Len(DigitChars) : DigitChars[i] = c

DigitValue(c) == (CHOOSE i \in 1..Len(DigitChars) : DigitChars[i] = c) - 1

\* String.prototype.toLowerCase on one character.
ToLowerChar(c) ==
    IF \E i \in 1..Len(UpperChars) : UpperChars[i] = c
    THEN LowerChars[CHOOSE i \in 1..Len(UpperChars) : UpperChars[i] = c]
    ELSE c

\* String.prototype.toLowerCase.
ToLowerCase(s) == [i \in 1..Len(s) |-> ToLowerChar(s[i])]

\* String.prototype.includes.
Includes(s, t) ==
    \E i \in 0..(Len(s) - Len(t)) : SubSeq(s, i + 1, i + Len(t)) = t

\* String.prototype.startsWith.
StartsWith(s, t) == Len(s) >= Len(t) /\ SubSeq(s, 1, Len(t)) = t

\* White space as String.prototype.trim sees it (the characters the model uses).
IsSpace(c) == c \in {" ", "\n", "\t"}

\* String.prototype.trim.
Trim(s) ==
    IF \A i \in 1..Len(s) : IsSpace(s[i]) THEN <<>>
    ELSE LET first == CHOOSE i \in 1..Len(s) :
                          ~IsSpace(s[i]) /\ \A j \in 1..(i - 1) : IsSpace(s[j])
             last  == CHOOSE i \in 1..Len(s) :
                          ~IsSpace(s[i]) /\ \A j \in (i + 1)..Len(s) : IsSpace(s[j])
         IN  SubSeq(s, first, last)

\* A parameter is present in the object (not undefined).
Has(obj, f) == f \in DOMAIN obj

\* JavaScript truthiness of an optional string parameter.
TruthyStr(obj, f) == Has(obj, f) /\ obj[f] # <<>>

\* JavaScript truthiness of an optional boolean parameter.
TruthyBool(obj, f) == Has(obj, f) /\ obj[f] = TRUE

\* String(n) for an integer n.
RECURSIVE NatToStr(_)
NatToStr(n) ==
    IF n < 10 THEN <<DigitChars[n + 1]>>
    ELSE NatToStr(n \div 10) \o <<DigitChars[(n % 10) + 1]>>

NumToStr(n) == IF n < 0 THEN <<"-">> \o NatToStr(-n) ELSE NatToStr(n)

\* parseInt(s, 10) for a string of decimal digits.
RECURSIVE ParseInt(_)
ParseInt(s) ==
    IF s = <<>> THEN 0
    ELSE 10 * ParseInt(SubSeq(s, 1, Len(s) - 1)) + DigitValue(s[Len(s)])

\* String.prototype.split on a one-character separator.
RECURSIVE SplitOn(_, _)
SplitOn(s, sep) ==
    IF \A i \in 1..Len(s) : s[i] # sep THEN <<s>>
    ELSE LET k == CHOOSE i \in 1..Len(s) :
                      s[i] = sep /\ \A j \in 1..(i - 1) : s[j] # sep
         IN  <<SubSeq(s, 1, k - 1)>> \o SplitOn(SubSeq(s, k + 1, Len(s)), sep)

\* Array.prototype.join on a one-character separator.
RECURSIVE JoinWith(_, _)
JoinWith(parts, sep) ==
    IF parts = <<>> THEN <<>>
    ELSE IF Len(parts) = 1 THEN parts[1]
    ELSE parts[1] \o <<sep>> \o JoinWith(Tail(parts), sep)

(***************************************************************************)
(* Argument lists.                                                         *)
(***************************************************************************)
\* The value undefined, as an element of an argument list.
Undefined == <<"undefined">>

\* ctx.cwd of the host.
Cwd == Str("/w")

\* Globs of the formats colgrep treats as text.
CODE_ONLY_EXCLUDES ==
    <<Str("*.md"), Str("*.markdown"), Str("*.txt"), Str("*.text"), Str("*.rst"), Str("*.adoc"), Str("*.asciidoc"), Str("*.org"),
      Str("*.yml"), Str("*.yaml"), Str("*.toml"), Str("*.json"),
      Str("*.sh"), Str("*.bash"), Str("*.zsh"), Str("*.ps1"),
      Str("Dockerfile"), Str("Makefile"), Str("GNUmakefile"), Str("makefile")>>

\* JavaScript truthiness of an optional number parameter.
TruthyNum(obj, f) == Has(obj, f) /\ obj[f] # 0

\* splitGlobs: the loop body at index i (0-based, i = Len(input) included),
\* with the depth, the start of the current piece and the pieces so far.
RECURSIVE splitGlobsLoop(_, _, _, _, _)
splitGlobsLoop(input, i, depth, start, parts) ==
    IF i > Len(input) THEN parts
    ELSE IF i < Len(input) /\ input[i + 1] = "{"
         THEN splitGlobsLoop(input, i + 1, depth + 1, start, parts)
    ELSE IF i < Len(input) /\ input[i + 1] = "}"
         THEN splitGlobsLoop(input, i + 1, depth - 1, start, parts)
    ELSE IF (i < Len(input) /\ input[i + 1] = "," /\ depth = 0) \/ i = Len(input)
         THEN LET g == Trim(SubSeq(input, start + 1, i))
              IN  splitGlobsLoop(input, i + 1, depth, i + 1,
                                 IF g # <<>> THEN Append(parts, g) ELSE parts)
    ELSE splitGlobsLoop(input, i + 1, depth, start, parts)

\* The trimmed, non-empty pieces of value.split(",") (exclude_dir).
RECURSIVE trimmedNonEmpty(_)
trimmedNonEmpty(pieces) ==
    IF pieces = <<>> THEN <<>>
    ELSE (IF Trim(pieces[1]) # <<>> THEN <<Trim(pieces[1])>> ELSE <<>>)
         \o trimmedNonEmpty(Tail(pieces))

\* The split at every comma, braces ignored.
splitGlobsAtEveryComma(input) == trimmedNonEmpty(SplitOn(input, ","))

\* splitGlobs(input)
splitGlobs(input) == splitGlobsLoop(input, 0, 0, 0, <<>>)

\* pushSearchPaths: params.path || ctx.cwd
searchPath(params) == IF TruthyStr(params, "path") THEN params.path ELSE Cwd

\* The arguments `flag, prefix + item + suffix` for every item, in order.
RECURSIVE pushEach(_, _, _, _)
pushEach(flag, prefix, items, suffix) ==
    IF items = <<>> THEN <<>>
    ELSE <<flag, prefix \o items[1] \o suffix>>
         \o pushEach(flag, prefix, Tail(items), suffix)

\* (params.limit && params.limit > 0) ? params.limit : 100
effectiveLimit(params) ==
    IF TruthyNum(params, "limit") /\ params.limit > 0 THEN params.limit ELSE 100

\* execRipgrep: params.multiline ?? patternHasNewline
effectiveMultiline(params) ==
    IF Has(params, "multiline") THEN params.multiline
    ELSE /\ Has(params, "pattern")
         /\ \/ Includes(params.pattern, Str("\\n"))
            \/ Includes(params.pattern, <<"\n">>)

\* execRipgrep: the argument list of the first rg run.
rgArgs(params) ==
    <<Str("--color=never"), Str("--line-number"), Str("--heading"),
      Str("--hidden"), Str("--stats")>>
    \o <<Str("--max-count"), NumToStr(effectiveLimit(params))>>
    \o (IF TruthyBool(params, "i") THEN <<Str("-i")>> ELSE <<>>)
    \o (IF TruthyBool(params, "fixed_strings") THEN <<Str("-F")>> ELSE <<>>)
    \o (IF TruthyBool(params, "word_regexp") THEN <<Str("-w")>> ELSE <<>>)
    \o (IF TruthyBool(params, "files_only") THEN <<Str("-l")>> ELSE <<>>)
    \o (IF TruthyStr(params, "type") THEN <<Str("-t"), params.type>> ELSE <<>>)
    \o (IF effectiveMultiline(params) THEN <<Str("--multiline")>> ELSE <<>>)
    \o (IF Has(params, "pre") THEN <<Str("-B"), NumToStr(params.pre)>> ELSE <<>>)
    \o (IF Has(params, "post") THEN <<Str("-A"), NumToStr(params.post)>> ELSE <<>>)
    \o (IF TruthyStr(params, "glob")
        THEN pushEach(Str("-g"), <<>>, splitGlobs(params.glob), <<>>) ELSE <<>>)
    \o (IF TruthyStr(params, "exclude")
        THEN pushEach(Str("-g"), Str("!"), splitGlobs(params.exclude), <<>>)
        ELSE <<>>)
    \o (IF TruthyStr(params, "exclude_dir")
        THEN pushEach(Str("-g"), Str("!"),
                      trimmedNonEmpty(SplitOn(params.exclude_dir, ",")), Str("/**"))
        ELSE <<>>)
    \o (IF TruthyBool(params, "code_only")
        THEN pushEach(Str("-g"), Str("!"), CODE_ONLY_EXCLUDES, <<>>) ELSE <<>>)
    \o <<Str("--"), IF Has(params, "pattern") THEN params.pattern ELSE Undefined,
         searchPath(params)>>

\* execColgrep: the argument list of the colgrep run.
colgrepArgs(params) ==
    <<Str("-y")>>
    \o (IF TruthyBool(params, "content") THEN <<Str("-c")>> ELSE <<>>)
    \o <<Str("-k"), NumToStr(effectiveLimit(params))>>
    \o (IF TruthyStr(params, "glob")
        THEN pushEach(Str("--include"), <<>>, splitGlobs(params.glob), <<>>)
        ELSE <<>>)
    \o (IF TruthyBool(params, "code_only") THEN <<Str("--code-only")>> ELSE <<>>)
    \o (IF TruthyBool(params, "files_only") THEN <<Str("-l")>> ELSE <<>>)
    \o (IF TruthyBool(params, "fixed_strings") THEN <<Str("-F")>> ELSE <<>>)
    \o (IF TruthyBool(params, "word_regexp") THEN <<Str("-w")>> ELSE <<>>)
    \o (IF Has(params, "context_lines")
        THEN <<Str("-n"), NumToStr(params.context_lines)>>
        ELSE IF Has(params, "pre") \/ Has(params, "post")
        THEN <<Str("-n"),
               NumToStr((IF Has(params, "pre") THEN params.pre ELSE 0)
                        + (IF Has(params, "post") THEN params.post ELSE 0) + 1)>>
        ELSE <<>>)
    \o (IF TruthyStr(params, "exclude")
        THEN pushEach(Str("--exclude"), <<>>, splitGlobs(params.exclude), <<>>)
        ELSE <<>>)
    \o (IF TruthyStr(params, "exclude_dir")
        THEN pushEach(Str("--exclude-dir"), <<>>,
                      trimmedNonEmpty(SplitOn(params.exclude_dir, ",")), <<>>)
        ELSE <<>>)
    \o (IF TruthyStr(params, "pattern") THEN <<Str("-e"), params.pattern>> ELSE <<>>)
    \o <<Str("--")>>
    \o (IF TruthyStr(params, "query") THEN <<params.query>> ELSE <<>>)
    \o <<searchPath(params)>>

(***************************************************************************)
(* Subprocess results and responses.                                       *)
(*                                                                         *)
(* A subprocess result is [killed, code, stdout, stderr]. A response is    *)
(* [isError, text] with a details field when the code sets one.            *)
(***************************************************************************)
\* The record with field f added when cond holds.
WithField(rec, cond, f, v) ==
    IF cond THEN [g \in DOMAIN rec \cup {f} |-> IF g = f THEN v ELSE rec[g]]
    ELSE rec

\* The record without field f.
WithoutField(rec, f) == [g \in DOMAIN rec \ {f} |-> rec[g]]

\* The last index of the run of digits of s that starts at p.
RunEnd(s, p) ==
    CHOOSE q \in p..Len(s) :
        /\ \A k \in p..q : IsDigit(s[k])
        /\ q = Len(s) \/ ~IsDigit(s[q + 1])

\* The start positions of a match of (\d+) followed by one of the suffixes.
NumberStarts(s, suffixes) ==
    {p \in 1..Len(s) :
        /\ IsDigit(s[p])
        /\ \E suf \in suffixes :
               StartsWith(SubSeq(s, RunEnd(s, p) + 1, Len(s)), suf)}

Min(S) == CHOOSE x \in S : \A y \in S : x <= y

\* s.match(/(\d+)<suffix>/): the number of the leftmost match, -1 without one.
NumberBefore(s, suffixes) ==
    LET P == NumberStarts(s, suffixes)
    IN  IF P = {} THEN -1
        ELSE ParseInt(SubSeq(s, Min(P), RunEnd(s, Min(P))))

\* The start positions of a match of /\n?\d+ matches?\n/.
StatsStarts(s) ==
    LET digits == NumberStarts(s, {Str(" matche\n"), Str(" matches\n")})
    IN  digits \cup {p \in 1..Len(s) : s[p] = "\n" /\ (p + 1) \in digits}

\* parseAndStripRgStats(stdout)
parseAndStripRgStats(stdout) ==
    [clean |->
        IF StatsStarts(stdout) = {} THEN Trim(stdout)
        ELSE Trim(SubSeq(stdout, 1, Min(StatsStarts(stdout)) - 1)),
     filesSearched |->
        NumberBefore(stdout, {Str(" file searched"), Str(" files searched")}),
     filesMatched |->
        NumberBefore(stdout, {Str(" file contained matches"),
                              Str(" files contained matches")})]

\* line.match(/^\d+[:\-]/)
isNumberedLine(line) ==
    /\ line # <<>>
    /\ IsDigit(line[1])
    /\ RunEnd(line, 1) < Len(line)
    /\ line[RunEnd(line, 1) + 1] \in {":", "-"}

\* line.match(/^\d+:/)
isMatchLine(line) ==
    /\ line # <<>>
    /\ IsDigit(line[1])
    /\ RunEnd(line, 1) < Len(line)
    /\ line[RunEnd(line, 1) + 1] = ":"

\* line && !line.match(/^\d+[:\-]/) && !line.startsWith(" ") && line.trim() !== "--"
isHeadingLine(line) ==
    /\ line # <<>>
    /\ ~isNumberedLine(line)
    /\ ~StartsWith(line, <<" ">>)
    /\ Trim(line) # Str("--")

\* execRipgrep, the offset loop over the lines from index i on.
RECURSIVE offsetLoop(_, _, _, _, _, _)
offsetLoop(lines, i, offset, skipped, kept, currentFile) ==
    IF i > Len(lines) THEN kept
    ELSE LET line == lines[i] IN
         IF isHeadingLine(line)
         THEN offsetLoop(lines, i + 1, offset, skipped, kept, line)
         ELSE IF isMatchLine(line) /\ skipped < offset
         THEN offsetLoop(lines, i + 1, offset, skipped + 1, kept, currentFile)
         ELSE IF isMatchLine(line) /\ currentFile # <<>>
         THEN offsetLoop(lines, i + 1, offset, skipped,
                         kept \o <<currentFile, line>>, <<>>)
         ELSE offsetLoop(lines, i + 1, offset, skipped,
                         Append(kept, line), currentFile)

\* (params.offset && params.offset > 0) ? params.offset : 0
effectiveOffset(params) ==
    IF TruthyNum(params, "offset") /\ params.offset > 0 THEN params.offset ELSE 0

\* The offset left unapplied.
applyOffsetIgnored(params, stdout) == stdout

\* execRipgrep: stdout after the offset was applied.
applyOffset(params, stdout) ==
    IF effectiveOffset(params) > 0
    THEN Trim(JoinWith(offsetLoop(SplitOn(stdout, "\n"), 1, effectiveOffset(params),
                                  0, <<>>, <<>>), "\n"))
    ELSE stdout

\* The heading lines of the output, each once, in order of first appearance.
RECURSIVE rgFiles(_, _)
rgFiles(lines, files) ==
    IF lines = <<>> THEN files
    ELSE rgFiles(Tail(lines),
                 IF /\ isHeadingLine(lines[1])
                    /\ \A k \in 1..Len(files) : files[k] # lines[1]
                 THEN Append(files, lines[1]) ELSE files)

\* The number of elements of a sequence that satisfy a test.
CountWhere(seq, Test(_)) == Cardinality({k \in 1..Len(seq) : Test(seq[k])})

\* The zero-result outcome reported as an error.
rgNoMatchesAsError(params, stats) ==
    [isError |-> TRUE, text |-> Str("Error: No matches found")]

\* execRipgrep: the zero-result response.
rgNoMatches(params, stats) ==
    [isError |-> FALSE,
     text |-> Str("[s:") \o NumToStr(stats.filesSearched) \o Str(" m:0 complete]")
              \o Str("\nNo matches found"),
     details |-> WithField(
        [resultCount |-> 0, engine |-> "rg",
         filesSearched |-> stats.filesSearched, filesMatched |-> 0,
         searchComplete |-> TRUE],
        Has(params, "pattern"), "pattern", params.pattern)]

\* execRipgrep: the response with matches.
rgMatches(params, stats, stdout) ==
    LET outputLines == SplitOn(stdout, "\n")
        files == rgFiles(outputLines, <<>>)
        matchCount == CountWhere(outputLines, isMatchLine)
    IN  [isError |-> FALSE,
         text |-> Str("[s:") \o NumToStr(stats.filesSearched) \o Str(" m:")
                  \o NumToStr(stats.filesMatched) \o Str(" complete]")
                  \o <<"\n">> \o stdout,
         details |-> WithField(
            [resultCount |-> IF matchCount # 0 THEN matchCount ELSE Len(files),
             searchPath |-> searchPath(params), files |-> files, engine |-> "rg",
             filesSearched |-> stats.filesSearched,
             filesMatched |-> stats.filesMatched, searchComplete |-> TRUE],
            Has(params, "pattern"), "pattern", params.pattern)]

\* execRipgrep after the last rg run: the response built from its result.
rgResponse(params, result) ==
    IF result.killed
    THEN [isError |-> TRUE, text |-> Str("Error: ripgrep timed out or was aborted.")]
    ELSE IF result.code = 2
    THEN [isError |-> TRUE,
          text |-> Str("Error: ")
                   \o (IF Trim(result.stderr) # <<>> THEN Trim(result.stderr)
                       ELSE Str("ripgrep error"))]
    ELSE LET stats == parseAndStripRgStats(Trim(result.stdout)) IN
         IF stats.clean = <<>> \/ result.code = 1
         THEN rgNoMatches(params, stats)
         ELSE IF applyOffset(params, stats.clean) = <<>>
         THEN rgNoMatches(params, stats)
         ELSE rgMatches(params, stats, applyOffset(params, stats.clean))

\* The retry test reading stderr without lower-casing it.
needsPcreRetryCaseSensitive(params, result) ==
    /\ result.code = 2
    /\ ~TruthyBool(params, "fixed_strings")
    /\ \/ Includes(result.stderr, Str("look-around"))
       \/ Includes(result.stderr, Str("backreference"))
       \/ Includes(result.stderr, Str("pcre2"))

\* execRipgrep: the first run is retried with -P.
needsPcreRetry(params, result) ==
    /\ result.code = 2
    /\ ~TruthyBool(params, "fixed_strings")
    /\ \/ Includes(ToLowerCase(result.stderr), Str("look-around"))
       \/ Includes(ToLowerCase(result.stderr), Str("backreference"))
       \/ Includes(ToLowerCase(result.stderr), Str("pcre2"))

\* The escape character \x1B, the en dash \u2013 and the backtick, each one
\* element of a string.
Esc == "ESC"

Backtick == "BACKTICK"

EnDash == "EN_DASH"

\* The last index of the run of [0-9;] of s that starts at p (p - 1 when empty).
AnsiParamsEnd(s, p) ==
    CHOOSE q \in (p - 1)..Len(s) :
        /\ \A k \in p..q : IsDigit(s[k]) \/ s[k] = ";"
        /\ q = Len(s) \/ ~(IsDigit(s[q + 1]) \/ s[q + 1] = ";")

\* stdout.replace(/\x1B\[[0-9;]*m/g, "")
RECURSIVE stripAnsi(_)
stripAnsi(s) ==
    IF s = <<>> THEN <<>>
    ELSE IF /\ s[1] = Esc
            /\ Len(s) >= 2 /\ s[2] = "["
            /\ AnsiParamsEnd(s, 3) < Len(s)
            /\ s[AnsiParamsEnd(s, 3) + 1] = "m"
         THEN stripAnsi(SubSeq(s, AnsiParamsEnd(s, 3) + 2, Len(s)))
         ELSE <<s[1]>> \o stripAnsi(Tail(s))

\* The positions k of ":" in line at which /^(.+?):(\d+[-–]\d+)/ matches.
RangeColons(line) ==
    {k \in 2..Len(line) :
        /\ line[k] = ":"
        /\ k < Len(line) /\ IsDigit(line[k + 1])
        /\ RunEnd(line, k + 1) + 1 < Len(line)
        /\ line[RunEnd(line, k + 1) + 1] \in {"-", EnDash}
        /\ IsDigit(line[RunEnd(line, k + 1) + 2])}

\* `${match[1]}:${match[2]}` of line.match(/^(.+?):(\d+[-–]\d+)/)
rangeEntry(line) ==
    LET k == Min(RangeColons(line))
        dash == RunEnd(line, k + 1) + 1
    IN  SubSeq(line, 1, RunEnd(line, dash + 1))

\* The last index of the run of white space of s that starts at p.
SpaceEnd(s, p) ==
    CHOOSE q \in p..Len(s) :
        /\ \A k \in p..q : IsSpace(s[k])
        /\ q = Len(s) \/ ~IsSpace(s[q + 1])

\* line.match(/^file:\s+(.+)/)
isFileLine(line) ==
    /\ StartsWith(line, Str("file:"))
    /\ Len(line) >= 7
    /\ IsSpace(line[6])

\* fileMatch[1] of line.match(/^file:\s+(.+)/)
fileEntry(line) ==
    IF SpaceEnd(line, 6) < Len(line)
    THEN SubSeq(line, SpaceEnd(line, 6) + 1, Len(line))
    ELSE <<line[Len(line)]>>

\* execColgrep: the files list built from the output lines.
RECURSIVE colgrepFiles(_, _)
colgrepFiles(params, lines) ==
    IF lines = <<>> THEN <<>>
    ELSE LET line == lines[1] IN
         (IF Trim(line) = <<>> THEN <<>>
          ELSE IF RangeColons(line) # {} THEN <<rangeEntry(line)>>
          ELSE IF isFileLine(line) THEN <<fileEntry(line)>>
          ELSE IF TruthyBool(params, "files_only") /\ ~StartsWith(line, <<" ">>)
          THEN <<Trim(line)>>
          ELSE <<>>)
         \o colgrepFiles(params, Tail(lines))

\* f.replace(/:.*$/, "")
stripRange(f) ==
    IF \E k \in 1..Len(f) : f[k] = ":"
    THEN SubSeq(f, 1, Min({k \in 1..Len(f) : f[k] = ":"}) - 1)
    ELSE f

\* `${filesSearched > 0 ? filesSearched : "?"}`
indexedLabel(filesSearched) ==
    IF filesSearched > 0 THEN NumToStr(filesSearched) ELSE Str("?")

isNonBlankLine(line) == Trim(line) # <<>>

\* execColgrep after the colgrep run: the response built from its result.
colgrepResponse(params, result) ==
    IF result.killed
    THEN [isError |-> TRUE,
          text |-> Str("Error: colgrep timed out or was aborted. First-time indexing can take 30-90s.")]
    ELSE IF result.code # 0
    THEN [isError |-> TRUE,
          text |-> Str("Error: ")
                   \o (IF Trim(result.stderr) # <<>> THEN Trim(result.stderr)
                       ELSE Str("colgrep failed"))]
    ELSE LET stdout == Trim(stripAnsi(result.stdout))
             filesSearched == NumberBefore(result.stderr, {Str(" files")})
             base == WithField(WithField(
                        [engine |-> "colgrep", filesSearched |-> filesSearched,
                         searchComplete |-> TRUE],
                        Has(params, "query"), "query", params.query),
                        Has(params, "pattern"), "pattern", params.pattern)
         IN
         IF stdout = <<>> \/ StartsWith(stdout, Str("No results found"))
         THEN [isError |-> FALSE,
               text |-> Str("[ix:") \o indexedLabel(filesSearched)
                        \o Str(" m:0 complete]") \o Str("\nNo matches found"),
               details |-> [f \in DOMAIN base \cup {"resultCount", "filesMatched"} |->
                               IF f \in {"resultCount", "filesMatched"} THEN 0
                               ELSE base[f]]]
         ELSE LET outputLines == SplitOn(stdout, "\n")
                  files == colgrepFiles(params, outputLines)
                  uniqueFiles == {stripRange(files[k]) : k \in 1..Len(files)}
              IN  [isError |-> FALSE,
                   text |-> Str("[ix:") \o indexedLabel(filesSearched) \o Str(" m:")
                            \o NumToStr(Cardinality(uniqueFiles)) \o Str(" complete]")
                            \o <<"\n">> \o stdout,
                   details |->
                      [f \in DOMAIN base \cup {"resultCount", "searchPath", "files",
                                               "filesMatched"} |->
                          CASE f = "resultCount" ->
                                   IF Len(files) # 0 THEN Len(files)
                                   ELSE CountWhere(outputLines, isNonBlankLine)
                            [] f = "searchPath" -> searchPath(params)
                            [] f = "files" -> files
                            [] f = "filesMatched" -> Cardinality(uniqueFiles)
                            [] OTHER -> base[f]]]

\* isColgrepRecoverable without toLowerCase.
isColgrepRecoverableCaseSensitive(result) ==
    \/ Includes(result.text, Str("rely on grep"))
    \/ Includes(result.text, Str("index is currently being built"))
    \/ Includes(result.text, Str("no index found"))
    \/ Includes(result.text, Str("no files indexed"))
    \/ Includes(result.text, Str("enoent"))
    \/ Includes(result.text, Str("not found"))

\* isColgrepRecoverable(result)
isColgrepRecoverable(result) ==
    LET text == ToLowerCase(result.text)
    IN  \/ Includes(text, Str("rely on grep"))
        \/ Includes(text, Str("index is currently being built"))
        \/ Includes(text, Str("no index found"))
        \/ Includes(text, Str("no files indexed"))
        \/ Includes(text, Str("enoent"))
        \/ Includes(text, Str("not found"))

\* execRipgrepFallback without `fallbackParams.fixed_strings = true`.
fallbackParamsKeepsFlag(params) ==
    IF TruthyStr(params, "pattern")
    THEN WithoutField(params, "query")
    ELSE WithoutField(
            [f \in DOMAIN params \cup {"pattern"} |->
                IF f = "pattern" THEN params.query ELSE params[f]],
            "query")

\* execRipgrepFallback: the parameters handed to execRipgrep.
fallbackParams(params) ==
    IF TruthyStr(params, "pattern")
    THEN WithoutField(params, "query")
    ELSE WithoutField(
            [f \in DOMAIN params \cup {"pattern", "fixed_strings"} |->
                IF f = "pattern" THEN params.query
                ELSE IF f = "fixed_strings" THEN TRUE
                ELSE params[f]],
            "query")

\* execRipgrepFallback: if (result.details) result.details.fallback = true
markFallback(result) ==
    IF Has(result, "details")
    THEN [result EXCEPT !.details =
             [f \in DOMAIN result.details \cup {"fallback"} |->
                 IF f = "fallback" THEN TRUE ELSE result.details[f]]]
    ELSE result

(***************************************************************************)
(* State.                                                                  *)
(***************************************************************************)
VARIABLES
    pc,         \* pc[c]: where the host is with call c
    event,      \* event[c]: the tool_call event of call c (toolName, input)
    chain,      \* MUTEX: the calls that entered acquire(), in order (the tail chain)
    resolved,   \* MUTEX: the calls whose `next` promise is resolved (release called)
    grantOrder, \* the calls whose `await MUTEX.acquire()` has resumed, in order
    releases,   \* keys of the releases map
    timers,     \* keys of the timers map
    armed,      \* the calls whose setTimeout is pending (not fired, not cleared)
    relCount,   \* relCount[c]: how often the release function of c was invoked
    procs,      \* procs[c]: the subprocesses execute launched for c, in order
    exits,      \* exits[c]: the results pi.exec returned to c, in order
    colgrepResult, \* colgrepResult[c]: `result` of execute, from execColgrep
    frame,      \* frame[c]: the running execRipgrep call of c (params, fallback)
    response    \* response[c]: what execute returned for c

vars == <<pc, event, chain, resolved, grantOrder, releases, timers, armed,
          relCount, procs, exits, colgrepResult, frame, response>>

execVars == <<procs, exits, colgrepResult, frame, response>>

gateVars == <<chain, resolved, grantOrder, releases, timers, armed, relCount>>

CallIds == 1..MaxCalls

\* An object with no field.
EmptyObj == [f \in {} |-> TRUE]

NoEvent == [toolName |-> "none", input |-> EmptyObj]

\* No response yet.
NoResponse == EmptyObj

\* No execRipgrep call yet.
NoFrame == EmptyObj

(***************************************************************************)
(* The contention gate.                                                    *)
(***************************************************************************)
\* tool_call: event.toolName === "lsp" && event.input?.action === "references"
isLspRefs(e) ==
    e.toolName = "lsp" /\ Has(e.input, "action") /\ e.input.action = "references"

\* tool_call: event.toolName === "grep" && typeof event.input?.query === "string"
isHeavyGrep(e) == e.toolName = "grep" /\ Has(e.input, "query")

\* The calls the tool_call handler sends through MUTEX.acquire().
isGated(e) == isLspRefs(e) \/ isHeavyGrep(e)

Granted == {grantOrder[i] : i \in 1..Len(grantOrder)}

InChain(c) == \E i \in 1..Len(chain) : chain[i] = c

Position(c) == CHOOSE i \in 1..Len(chain) : chain[i] = c

\* The tool_call handler of c is suspended in `await MUTEX.acquire()`.
Waiting(c) == InChain(c) /\ c \notin Granted

\* acquire() without `await prev`.
PrevNotAwaited(c) == TRUE

\* acquire() awaiting the acquisitions before c instead of their releases.
PrevGranted(c) == \A i \in 1..(Position(c) - 1) : chain[i] \in Granted

\* MUTEX.acquire, `await prev`: prev is the tail as it was when c called
\* acquire(), which resolves once every `next` chained before c is resolved.
PrevResolved(c) == \A i \in 1..(Position(c) - 1) : chain[i] \in resolved

\* A continuation of a resolved await is queued. The event loop runs it before
\* it delivers the next host event, timer or subprocess exit.
ContinuationPending == \E c \in CallIds : Waiting(c) /\ PrevResolved(c)

\* The release function of c's ticket is invoked: its `next` promise resolves.
CallRelease(c) ==
    /\ resolved' = resolved \cup {c}
    /\ relCount' = [relCount EXCEPT ![c] = @ + 1]

\* pi.on("tool_call"): the host emits the event of call c; the handler runs up
\* to its await. Calls are numbered in the order the host issues them.
ToolCall(c, e) ==
    /\ ~ContinuationPending
    /\ pc[c] = "new"
    /\ \A d \in CallIds : d < c => pc[d] # "new"
    /\ pc' = [pc EXCEPT ![c] = "called"]
    /\ event' = [event EXCEPT ![c] = e]
    /\ chain' = IF isGated(e) THEN Append(chain, c) ELSE chain
    /\ UNCHANGED <<resolved, grantOrder, releases, timers, armed, relCount>>
    /\ UNCHANGED execVars

\* pi.on("tool_call"), after the await: the acquisition of c resolves, the
\* handler stores the release function and arms the expiry timer, and returns.
AcquireResolve(c) ==
    /\ Waiting(c)
    /\ PrevResolved(c)
    /\ grantOrder' = Append(grantOrder, c)
    /\ releases' = releases \cup {c}
    /\ timers' = timers \cup {c}
    /\ armed' = armed \cup {c}
    /\ UNCHANGED <<pc, event, chain, resolved, relCount>>
    /\ UNCHANGED execVars

\* A setTimeout callback that forgets the ticket without calling release.
TimerExpireNoRelease(c) ==
    /\ ~ContinuationPending
    /\ c \in armed
    /\ armed' = armed \ {c}
    /\ releases' = releases \ {c}
    /\ UNCHANGED <<pc, event, chain, resolved, grantOrder, timers, relCount>>
    /\ UNCHANGED execVars

\* The setTimeout callback of c fires (120 s after the acquisition).
TimerExpire(c) ==
    /\ ~ContinuationPending
    /\ c \in armed
    /\ armed' = armed \ {c}
    /\ IF c \in releases
       THEN releases' = releases \ {c} /\ CallRelease(c)
       ELSE UNCHANGED <<releases, resolved, relCount>>
    /\ UNCHANGED <<pc, event, chain, grantOrder, timers>>
    /\ UNCHANGED execVars

\* pi.on("tool_result"): the host reports the end of call c. The event comes
\* after the tool returned, or for a call that was given up before its tool
\* started (pc = "called", its handler possibly still waiting for the gate).
ToolResult(c) ==
    /\ ~ContinuationPending
    /\ pc[c] \in {"called", "tool", "returned"}
    /\ pc' = [pc EXCEPT ![c] = "done"]
    /\ IF c \in timers
       THEN armed' = armed \ {c} /\ timers' = timers \ {c}
       ELSE UNCHANGED <<armed, timers>>
    /\ IF c \in releases
       THEN releases' = releases \ {c} /\ CallRelease(c)
       ELSE UNCHANGED <<releases, resolved, relCount>>
    /\ UNCHANGED <<event, chain, grantOrder>>
    /\ UNCHANGED execVars

\* pi.on("tool_result") calling release whether or not a ticket is stored.
ToolResultAgainUnguarded(c) ==
    /\ ~ContinuationPending
    /\ pc[c] = "done"
    /\ IF c \in timers
       THEN armed' = armed \ {c} /\ timers' = timers \ {c}
       ELSE UNCHANGED <<armed, timers>>
    /\ releases' = releases \ {c}
    /\ CallRelease(c)
    /\ UNCHANGED <<pc, event, chain, grantOrder>>
    /\ UNCHANGED execVars

\* pi.on("tool_result"): the host reports the end of call c once more.
ToolResultAgain(c) ==
    /\ ~ContinuationPending
    /\ pc[c] = "done"
    /\ IF c \in timers
       THEN armed' = armed \ {c} /\ timers' = timers \ {c}
       ELSE UNCHANGED <<armed, timers>>
    /\ IF c \in releases
       THEN releases' = releases \ {c} /\ CallRelease(c)
       ELSE UNCHANGED <<releases, resolved, relCount>>
    /\ UNCHANGED <<pc, event, chain, grantOrder>>
    /\ UNCHANGED execVars

\* The host starts a tool other than grep, once the tool_call handler returned.
StartTool(c) ==
    /\ ~ContinuationPending
    /\ pc[c] = "called"
    /\ ~Waiting(c)
    /\ event[c].toolName # "grep"
    /\ pc' = [pc EXCEPT ![c] = "tool"]
    /\ UNCHANGED event
    /\ UNCHANGED gateVars
    /\ UNCHANGED execVars

(***************************************************************************)
(* execute of the grep tool.                                               *)
(***************************************************************************)
\* pi.exec(cmd, args, {signal, timeout}) is called for c.
Launch(c, cmd, args, timeout) ==
    procs' = [procs EXCEPT ![c] =
                 Append(@, [cmd |-> cmd, args |-> args, timeout |-> timeout])]

\* `await pi.exec(...)` of c resumes with result.
Exited(c, result) == exits' = [exits EXCEPT ![c] = Append(@, result)]

\* The validation testing for absent parameters only.
isInvalidRequestAbsentOnly(params) ==
    ~Has(params, "query") /\ ~Has(params, "pattern")

\* execute: !params.query && !params.pattern
isInvalidRequest(params) ==
    ~TruthyStr(params, "query") /\ ~TruthyStr(params, "pattern")

\* The routing sending a request with a pattern to rg whatever its query.
routesToColgrepUnlessPattern(params) ==
    TruthyStr(params, "query") /\ ~TruthyStr(params, "pattern")

\* execute: if (params.query)
routesToColgrep(params) == TruthyStr(params, "query")

\* execute: result.isError && isColgrepRecoverable(result)
shouldFallback(result) == result.isError /\ isColgrepRecoverable(result)

\* execute: the host runs the grep tool of c, once the tool_call handler
\* returned, up to its first await or its return.
Execute(c) ==
    LET params == event[c].input IN
    /\ ~ContinuationPending
    /\ pc[c] = "called"
    /\ ~Waiting(c)
    /\ event[c].toolName = "grep"
    /\ IF isInvalidRequest(params)
       THEN /\ response' = [response EXCEPT ![c] =
                   [isError |-> TRUE,
                    text |-> Str("Error: at least one of ") \o <<Backtick>>
                             \o Str("query") \o <<Backtick>> \o Str(" or ")
                             \o <<Backtick>> \o Str("pattern") \o <<Backtick>>
                             \o Str(" must be provided.")]]
            /\ pc' = [pc EXCEPT ![c] = "returned"]
            /\ UNCHANGED <<procs, frame>>
       ELSE IF routesToColgrep(params)
       THEN /\ Launch(c, "colgrep", colgrepArgs(params), 120000)
            /\ pc' = [pc EXCEPT ![c] = "colgrep"]
            /\ UNCHANGED <<frame, response>>
       ELSE /\ Launch(c, "rg", rgArgs(params), 30000)
            /\ frame' = [frame EXCEPT ![c] = [params |-> params, fallback |-> FALSE]]
            /\ pc' = [pc EXCEPT ![c] = "rg"]
            /\ UNCHANGED response
    /\ UNCHANGED <<event, exits, colgrepResult>>
    /\ UNCHANGED gateVars

\* execute after `await execColgrep`: the colgrep run of c ended with result;
\* a recoverable failure enters execRipgrepFallback, which launches rg.
ColgrepExit(c, result) ==
    LET params == event[c].input
        res == colgrepResponse(params, result)
    IN
    /\ ~ContinuationPending
    /\ pc[c] = "colgrep"
    /\ Exited(c, result)
    /\ colgrepResult' = [colgrepResult EXCEPT ![c] = res]
    /\ IF shouldFallback(res)
       THEN /\ Launch(c, "rg", rgArgs(fallbackParams(params)), 30000)
            /\ frame' = [frame EXCEPT ![c] =
                            [params |-> fallbackParams(params), fallback |-> TRUE]]
            /\ pc' = [pc EXCEPT ![c] = "rg"]
            /\ UNCHANGED response
       ELSE /\ response' = [response EXCEPT ![c] = res]
            /\ pc' = [pc EXCEPT ![c] = "returned"]
            /\ UNCHANGED <<procs, frame>>
    /\ UNCHANGED event
    /\ UNCHANGED gateVars

\* execRipgrep returns result to its caller: execute, or execRipgrepFallback,
\* which marks the details.
RgReturn(c, result) ==
    /\ response' = [response EXCEPT ![c] =
                       IF frame[c].fallback THEN markFallback(result) ELSE result]
    /\ pc' = [pc EXCEPT ![c] = "returned"]

\* execRipgrep after the first `await pi.exec("rg")`: retry with -P or finish.
RgExit(c, result) ==
    /\ ~ContinuationPending
    /\ pc[c] = "rg"
    /\ Exited(c, result)
    /\ IF needsPcreRetry(frame[c].params, result)
       THEN /\ Launch(c, "rg", <<Str("-P")>> \o rgArgs(frame[c].params), 30000)
            /\ pc' = [pc EXCEPT ![c] = "rgP"]
            /\ UNCHANGED response
       ELSE /\ RgReturn(c, rgResponse(frame[c].params, result))
            /\ UNCHANGED procs
    /\ UNCHANGED <<event, colgrepResult, frame>>
    /\ UNCHANGED gateVars

\* The -P run retried in its turn when it fails the same way.
RgRetryExitRetriesAgain(c, result) ==
    /\ ~ContinuationPending
    /\ pc[c] = "rgP"
    /\ Exited(c, result)
    /\ IF needsPcreRetry(frame[c].params, result) /\ Len(procs[c]) < 4
       THEN /\ Launch(c, "rg", <<Str("-P")>> \o rgArgs(frame[c].params), 30000)
            /\ UNCHANGED <<pc, response>>
       ELSE /\ RgReturn(c, rgResponse(frame[c].params, result))
            /\ UNCHANGED procs
    /\ UNCHANGED <<event, colgrepResult, frame>>
    /\ UNCHANGED gateVars

\* execRipgrep after the second `await pi.exec("rg")` (the -P run).
RgRetryExit(c, result) ==
    /\ ~ContinuationPending
    /\ pc[c] = "rgP"
    /\ Exited(c, result)
    /\ RgReturn(c, rgResponse(frame[c].params, result))
    /\ UNCHANGED <<event, colgrepResult, frame, procs>>
    /\ UNCHANGED gateVars

(***************************************************************************)
(* The inputs: tool_call events and subprocess results.                    *)
(***************************************************************************)
Query == Str("auth flow")

Pattern == Str("foo")

\* Events of the concurrent specification: both gated tool surfaces, an
\* ungated lsp action, and grep with a query, with a pattern only, and with
\* an empty query.
GateEvents ==
    {[toolName |-> "lsp", input |-> [action |-> "references"]],
     [toolName |-> "lsp", input |-> [action |-> "hover"]],
     [toolName |-> "grep", input |-> [query |-> Query]],
     [toolName |-> "grep", input |-> [pattern |-> Pattern]],
     [toolName |-> "grep", input |-> [query |-> <<>>, pattern |-> Pattern]]}

\* Subprocess results of the concurrent specification, where the interleaving
\* of the calls matters and the single-call specification varies the results:
\* colgrep succeeds, and rg asks for PCRE2, so that the retry runs too.
GateColgrepResults ==
    {[killed |-> FALSE, code |-> 0, stdout |-> Str("src/a.ts:1-5"),
      stderr |-> Str("12 files")]}

GateRgResults ==
    {[killed |-> FALSE, code |-> 2, stdout |-> <<>>,
      stderr |-> Str("PCRE2 is needed")]}

\* Events of the single-call specification: every combination of query and
\* pattern (absent, empty, set) and of fixed_strings (absent, true, false),
\* and some with further options.
OptionalField(f, values) ==
    {EmptyObj} \cup {[g \in {f} |-> v] : v \in values}

Merge(a, b) ==
    [f \in DOMAIN a \cup DOMAIN b |-> IF f \in DOMAIN a THEN a[f] ELSE b[f]]

MoreOptions == [i |-> TRUE, path |-> Str("src"), limit |-> 5]

ExecInputs ==
    {Merge(Merge(q, p), fs) :
        q \in OptionalField("query", {<<>>, Query}),
        p \in OptionalField("pattern", {<<>>, Pattern}),
        fs \in OptionalField("fixed_strings", {TRUE, FALSE})}
    \cup {Merge([query |-> Query], MoreOptions),
          Merge([query |-> Query, pattern |-> Pattern], MoreOptions)}

ExecEvents == {[toolName |-> "grep", input |-> in] : in \in ExecInputs}

\* What colgrep wrote to stderr when it failed.
StderrSamples ==
    {<<>>,
     Str("No index found. Run colgrep index first"),
     Str("The index is currently being built"),
     Str("index is being built"),
     Str("Please rely on grep for now"),
     Str("No files indexed"),
     Str("spawn colgrep ENOENT"),
     Str("sh: colgrep: command NOT FOUND"),
     Str("permission denied")}

ColgrepStdoutSamples ==
    {<<>>,
     Str("No results found"),
     Str("src/a.ts:1-5\n  // handler not found\nfile: src/b.ts")}

\* Results of a colgrep run: successes, failures, and killed runs.
ExecColgrepResults ==
    {[killed |-> FALSE, code |-> 0, stdout |-> s, stderr |-> Str("Indexed 12 files")] :
        s \in ColgrepStdoutSamples}
    \cup {[killed |-> FALSE, code |-> 0, stdout |-> Str("No results found"),
           stderr |-> Str("no index found")]}
    \cup {[killed |-> FALSE, code |-> 1, stdout |-> <<>>, stderr |-> e] :
            e \in StderrSamples}
    \cup {[killed |-> TRUE, code |-> k, stdout |-> <<>>, stderr |-> e] :
            k \in {0, 1}, e \in {<<>>, Str("No index found")}}

RgStderrSamples ==
    {<<>>,
     Str("regex parse error: look-around is not supported"),
     Str("error: Backreference not supported"),
     Str("PCRE2: error compiling pattern"),
     Str("No such file or directory")}

RgStdoutSample ==
    Str("src/a.ts\n3:foo\n7:foo bar\n\n2 matches\n2 matched lines\n1 files contained matches\n4 files searched\n")

RgStatsOnlySample ==
    Str("\n0 matches\n0 matched lines\n0 files contained matches\n4 files searched\n")

\* The output of an rg that prints no statistics to stdout.
RgNoStatsSample == Str("src/a.ts\n3:foo")

\* Results of an rg run: matches, no match, errors, and killed runs.
ExecRgResults ==
    {[killed |-> FALSE, code |-> 0, stdout |-> RgStdoutSample, stderr |-> <<>>],
     [killed |-> FALSE, code |-> 0, stdout |-> RgStatsOnlySample, stderr |-> <<>>],
     [killed |-> FALSE, code |-> 0, stdout |-> RgNoStatsSample, stderr |-> <<>>],
     [killed |-> FALSE, code |-> 1, stdout |-> RgStatsOnlySample, stderr |-> <<>>],
     [killed |-> FALSE, code |-> 1, stdout |-> <<>>, stderr |-> <<>>]}
    \cup {[killed |-> FALSE, code |-> 2, stdout |-> <<>>, stderr |-> e] :
            e \in RgStderrSamples}
    \cup {[killed |-> TRUE, code |-> k, stdout |-> <<>>, stderr |-> e] :
            k \in {0, 2}, e \in {<<>>, Str("PCRE2: error compiling pattern")}}

(***************************************************************************)
(* The specification: the host issues up to MaxCalls concurrent calls.     *)
(***************************************************************************)
Init ==
    /\ pc = [c \in CallIds |-> "new"]
    /\ event = [c \in CallIds |-> NoEvent]
    /\ chain = <<>>
    /\ resolved = {}
    /\ grantOrder = <<>>
    /\ releases = {}
    /\ timers = {}
    /\ armed = {}
    /\ relCount = [c \in CallIds |-> 0]
    /\ procs = [c \in CallIds |-> <<>>]
    /\ exits = [c \in CallIds |-> <<>>]
    /\ colgrepResult = [c \in CallIds |-> NoResponse]
    /\ frame = [c \in CallIds |-> NoFrame]
    /\ response = [c \in CallIds |-> NoResponse]

Next ==
    \E c \in CallIds :
        \/ \E e \in GateEvents : ToolCall(c, e)
        \/ AcquireResolve(c)
        \/ TimerExpire(c)
        \/ ToolResult(c)
        \/ ToolResultAgain(c)
        \/ StartTool(c)
        \/ Execute(c)
        \/ \E r \in GateColgrepResults : ColgrepExit(c, r)
        \/ \E r \in GateRgResults : RgExit(c, r)
        \/ \E r \in GateRgResults : RgRetryExit(c, r)

Spec == Init /\ [][Next]_vars

\* Spec with the scheduling of the event loop: a resolved await resumes, and
\* an armed timer fires. Nothing obliges the host to deliver a tool_result.
FairSpec ==
    /\ Spec
    /\ \A c \in CallIds : WF_vars(AcquireResolve(c)) /\ WF_vars(TimerExpire(c))

(***************************************************************************)
(* The single-call specification: one grep call, every input.              *)
(***************************************************************************)
ExecNext ==
    \/ \E e \in ExecEvents : ToolCall(1, e)
    \/ AcquireResolve(1)
    \/ TimerExpire(1)
    \/ ToolResult(1)
    \/ Execute(1)
    \/ \E r \in ExecColgrepResults : ColgrepExit(1, r)
    \/ \E r \in ExecRgResults : RgExit(1, r)
    \/ \E r \in ExecRgResults : RgRetryExit(1, r)

ExecSpec == Init /\ [][ExecNext]_vars

\* The result of a run that its timeout ended.
TimedOutRun == [killed |-> TRUE, code |-> 0, stdout |-> <<>>, stderr |-> <<>>]

\* The timeout of pi.exec ends the subprocess c awaits: the step of
\* ColgrepExit, RgExit or RgRetryExit with TimedOutRun, whose error response
\* is neither retried nor recovered by the fallback.
TimeoutEnds(c) ==
    /\ ~ContinuationPending
    /\ pc[c] \in {"colgrep", "rg", "rgP"}
    /\ Exited(c, TimedOutRun)
    /\ IF pc[c] = "colgrep"
       THEN /\ colgrepResult' = [colgrepResult EXCEPT ![c] =
                   colgrepResponse(event[c].input, TimedOutRun)]
            /\ response' = [response EXCEPT ![c] =
                   colgrepResponse(event[c].input, TimedOutRun)]
            /\ pc' = [pc EXCEPT ![c] = "returned"]
       ELSE /\ RgReturn(c, rgResponse(frame[c].params, TimedOutRun))
            /\ UNCHANGED colgrepResult
    /\ UNCHANGED <<event, procs, frame>>
    /\ UNCHANGED gateVars

\* ExecSpec where every subprocess run ends: pi.exec resolves, at the latest
\* when its timeout kills the process.
ExecFairSpec == ExecSpec /\ WF_vars(TimeoutEnds(1))

(***************************************************************************)
(* The glob specification: one pattern search, every glob specification.   *)
(***************************************************************************)
GlobChars == {"a", ",", "{", "}", " "}

\* The strings over GlobChars of length n.
RECURSIVE GlobStrings(_)
GlobStrings(n) ==
    IF n = 0 THEN {<<>>}
    ELSE {Append(s, ch) : s \in GlobStrings(n - 1), ch \in GlobChars}

\* The glob parameter: every non-empty string up to MaxGlobLen, the two
\* documented specifications, and some with nested and repeated groups.
GlobInputs ==
    UNION {GlobStrings(n) : n \in 1..MaxGlobLen}
    \cup {Str("*.{ts,js},*.md"), Str("*.{a,b}"),
          Str("{a,{b,c}},d"), Str("{a,b},{c,d}"), Str(" a , ,b{ , } "),
          Str("a},b,c"), Str("{a,b")}

GlobEvents ==
    {[toolName |-> "grep", input |-> [pattern |-> Pattern, glob |-> g]] :
        g \in GlobInputs}

GlobRgResults ==
    {[killed |-> FALSE, code |-> 1, stdout |-> <<>>, stderr |-> <<>>]}

GlobNext ==
    \/ \E e \in GlobEvents : ToolCall(1, e)
    \/ Execute(1)
    \/ \E r \in GlobRgResults : RgExit(1, r)
    \/ ToolResult(1)

GlobSpec == Init /\ [][GlobNext]_vars

(***************************************************************************)
(* The offset specification: one pattern search with an offset, over rg    *)
(* outputs of one block per file.                                          *)
(***************************************************************************)
\* The numbered lines rg prints under a file heading: matches ("n:"),
\* context lines ("n-") and the separator of context groups.
FileBlocks ==
    {<<Str("1:x")>>,
     <<Str("1:x"), Str("2:y")>>,
     <<Str("1-c"), Str("2:x"), Str("3-c")>>,
     <<Str("1:x"), Str("2-c"), Str("--"), Str("7-c"), Str("8:y")>>}

FileName(i) == Str("f") \o NatToStr(i) \o Str(".ts")

\* The lines of an output with these blocks: heading, block, and a blank line
\* between two files.
RECURSIVE OutputLines(_, _)
OutputLines(blocks, i) ==
    IF i > Len(blocks) THEN <<>>
    ELSE (IF i > 1 THEN <<(<<>>)>> ELSE <<>>)
         \o <<FileName(i)>> \o blocks[i] \o OutputLines(blocks, i + 1)

RgStatsTail ==
    Str("\n\n2 matches\n2 matched lines\n1 files contained matches\n4 files searched\n")

OffsetRgResults ==
    {[killed |-> FALSE, code |-> 0, stderr |-> <<>>,
      stdout |-> JoinWith(OutputLines(blocks, 1), "\n") \o RgStatsTail] :
        blocks \in UNION {[1..m -> FileBlocks] : m \in 1..MaxFiles}}

OffsetEvents ==
    {[toolName |-> "grep", input |-> [pattern |-> Pattern, offset |-> k]] :
        k \in 0..MaxOffset}

OffsetNext ==
    \/ \E e \in OffsetEvents : ToolCall(1, e)
    \/ Execute(1)
    \/ \E r \in OffsetRgResults : RgExit(1, r)
    \/ ToolResult(1)

OffsetSpec == Init /\ [][OffsetNext]_vars

(***************************************************************************)
(* The arguments specification: one search per request, over the           *)
(* parameters that shape the argument list of either engine.               *)
(***************************************************************************)
\* Patterns without a newline, with a literal newline, and with an escaped
\* one (a backslash followed by n).
MultilinePatterns == {Pattern, Str("a\nb"), Str("a\\nb")}

\* Pattern searches with the multiline parameter absent, true and false.
MultilineInputs ==
    {Merge([pattern |-> p], m) :
        p \in MultilinePatterns, m \in OptionalField("multiline", {TRUE, FALSE})}

\* Comma-delimited filter values, with and without brace groups.
FilterValues ==
    {Str("{a,b}"), Str("a,b"), Str(" a , {b,c} ,"), Str("*.{ts,js},*.md")}

\* Searches of either engine with one of the three filter parameters.
FilterInputs ==
    {Merge(engine, [f \in {field} |-> v]) :
        engine \in {[pattern |-> Pattern], [query |-> Query]},
        field \in {"glob", "exclude", "exclude_dir"},
        v \in FilterValues}

ArgsEvents ==
    {[toolName |-> "grep", input |-> in] :
        in \in MultilineInputs \cup FilterInputs}

\* colgrep output that names a code unit twice and a file twice.
ColgrepRepeatSample ==
    Str("src/a.ts:1-5\nfile: src/b.ts\nsrc/a.ts:1-5\nfile: src/b.ts")

ArgsColgrepResults ==
    GateColgrepResults
    \cup {[killed |-> FALSE, code |-> 0, stdout |-> ColgrepRepeatSample,
           stderr |-> Str("12 files")]}

\* rg output that prints the heading of a file twice.
RgRepeatSample == Str("src/b.ts\n3:foo\n\nsrc/a.ts\n1:foo\n\nsrc/b.ts\n3:foo")

ArgsRgResults ==
    GlobRgResults
    \cup {[killed |-> FALSE, code |-> 0, stdout |-> RgRepeatSample, stderr |-> <<>>]}

ArgsNext ==
    \/ \E e \in ArgsEvents : ToolCall(1, e)
    \/ AcquireResolve(1)
    \/ Execute(1)
    \/ \E r \in ArgsColgrepResults : ColgrepExit(1, r)
    \/ \E r \in ArgsRgResults : RgExit(1, r)
    \/ ToolResult(1)

ArgsSpec == Init /\ [][ArgsNext]_vars

(***************************************************************************)
(* Properties.                                                             *)
(***************************************************************************)
GrepCall(c) == event[c].toolName = "grep"

\* The commands execute launched for c, in order.
Commands(c) == [k \in 1..Len(procs[c]) |-> procs[c][k].cmd]

\* execute of c has run (it awaits a subprocess or has returned).
Executed(c) == pc[c] \in {"colgrep", "rg", "rgP", "returned"}

\* seq holds part as a contiguous run.
HasRun(seq, part) ==
    \E k \in 0..(Len(seq) - Len(part)) : SubSeq(seq, k + 1, k + Len(part)) = part

\* seq ends with part.
EndsWith(seq, part) ==
    Len(seq) >= Len(part) /\ SubSeq(seq, Len(seq) - Len(part) + 1, Len(seq)) = part

RecoverablePhrases ==
    {Str("rely on grep"), Str("index is currently being built"),
     Str("no index found"), Str("no files indexed"), Str("enoent"),
     Str("not found")}

\* text holds one of the recoverable phrases, whatever the case of its letters.
MentionsRecoverablePhrase(text) ==
    \E phrase \in RecoverablePhrases : Includes(ToLowerCase(text), phrase)

\* The subprocess run ended killed or with a non-zero exit code.
RunFailed(run) == run.killed \/ run.code # 0

\* C1: a request with a non-empty pattern and no query launches rg and never
\* colgrep; a request with a non-empty query launches colgrep first and only
\* once; with both set, the colgrep invocation carries `-e pattern` and ends
\* with `-- query path`; rg is launched for a query-bearing request only after
\* the colgrep run failed with a recoverable error text.
C1_EngineSelection ==
    \A c \in CallIds :
        GrepCall(c) =>
            LET in == event[c].input
                hasQuery == TruthyStr(in, "query")
                hasPattern == TruthyStr(in, "pattern")
            IN
            /\ (hasPattern /\ ~hasQuery) =>
                   /\ \A k \in 1..Len(procs[c]) : procs[c][k].cmd = "rg"
                   /\ Executed(c) => procs[c] # <<>>
            /\ hasQuery =>
                   /\ Executed(c) => procs[c] # <<>>
                   /\ procs[c] # <<>> => procs[c][1].cmd = "colgrep"
                   /\ \A k \in 2..Len(procs[c]) : procs[c][k].cmd = "rg"
                   /\ procs[c] # <<>> =>
                          EndsWith(procs[c][1].args,
                                   <<Str("--"), in.query, searchPath(in)>>)
                   /\ Len(procs[c]) >= 2 =>
                          /\ RunFailed(exits[c][1])
                          /\ colgrepResult[c].isError
                          /\ MentionsRecoverablePhrase(colgrepResult[c].text)
            /\ (hasQuery /\ hasPattern /\ procs[c] # <<>>) =>
                   HasRun(procs[c][1].args,
                          <<Str("-e"), in.pattern, Str("--"), in.query>>)

\* A hybrid request whose colgrep run failed recoverably, so that rg ran too.
C1_Witness ==
    \E c \in CallIds :
        /\ GrepCall(c)
        /\ TruthyStr(event[c].input, "query")
        /\ TruthyStr(event[c].input, "pattern")
        /\ Commands(c) = <<"colgrep", "rg">>

\* C2: a grep request whose query and pattern are both absent or empty gets an
\* error response and launches no subprocess.
C2_InvalidRequest ==
    \A c \in CallIds :
        (/\ GrepCall(c)
         /\ ~TruthyStr(event[c].input, "query")
         /\ ~TruthyStr(event[c].input, "pattern")) =>
            /\ procs[c] = <<>>
            /\ pc[c] \notin {"colgrep", "rg", "rgP"}
            /\ pc[c] = "returned" => response[c] # NoResponse
            /\ response[c] # NoResponse => response[c].isError

\* An executed request whose query and pattern are both present and empty.
C2_Witness ==
    \E c \in CallIds :
        /\ GrepCall(c)
        /\ Has(event[c].input, "query") /\ event[c].input.query = <<>>
        /\ Has(event[c].input, "pattern") /\ event[c].input.pattern = <<>>
        /\ pc[c] = "returned"
        /\ response[c].isError

\* C3: on a recoverable semantic failure execRipgrep is called once, with the
\* query removed and every other option unchanged, and with the request's
\* pattern (fixed_strings as given) when the request has a non-empty pattern,
\* else with the query text as pattern and fixed_strings true.
C3_FallbackParams ==
    \A c \in CallIds :
        (frame[c] # NoFrame /\ frame[c].fallback) =>
            LET in == event[c].input
                fp == frame[c].params
                others == (DOMAIN in \cup DOMAIN fp)
                              \ {"query", "pattern", "fixed_strings"}
            IN
            /\ ~Has(fp, "query")
            /\ \A f \in others : Has(in, f) /\ Has(fp, f) /\ fp[f] = in[f]
            /\ IF TruthyStr(in, "pattern")
               THEN /\ fp.pattern = in.pattern
                    /\ Has(fp, "fixed_strings") <=> Has(in, "fixed_strings")
                    /\ Has(in, "fixed_strings") =>
                           fp.fixed_strings = in.fixed_strings
               ELSE /\ fp.pattern = in.query
                    /\ Has(fp, "fixed_strings") /\ fp.fixed_strings = TRUE
            /\ Len(procs[c]) \in {2, 3}
            /\ procs[c][2] = [cmd |-> "rg", args |-> rgArgs(fp), timeout |-> 30000]
            /\ Len(procs[c]) = 3 =>
                   procs[c][3].args = <<Str("-P")>> \o procs[c][2].args

\* A fallback, run to its end, for a request without pattern that asked for
\* fixed_strings false.
C3_Witness ==
    \E c \in CallIds :
        /\ frame[c] # NoFrame /\ frame[c].fallback
        /\ pc[c] = "returned"
        /\ ~TruthyStr(event[c].input, "pattern")
        /\ Has(event[c].input, "fixed_strings")
        /\ event[c].input.fixed_strings = FALSE

\* C4: the fallback replaces a failed semantic run exactly when its error text
\* holds a recoverable phrase, case-insensitively; any other failure is
\* returned unchanged as an error with no rg run; a successful run is returned
\* as it is.
C4_FallbackIffRecoverable ==
    \A c \in CallIds :
        (exits[c] # <<>> /\ procs[c][1].cmd = "colgrep") =>
            LET failed == RunFailed(exits[c][1])
                result == colgrepResult[c]
                fellBack == Len(procs[c]) >= 2
            IN
            /\ result.isError <=> failed
            /\ fellBack <=> (failed /\ MentionsRecoverablePhrase(result.text))
            /\ fellBack => frame[c] # NoFrame /\ frame[c].fallback
            /\ ~fellBack =>
                   /\ pc[c] \in {"returned", "done"}
                   /\ response[c] = result
                   /\ Commands(c) = <<"colgrep">>
            /\ (fellBack /\ pc[c] \in {"returned", "done"}) =>
                   /\ response[c] # NoResponse
                   /\ Has(response[c], "details") =>
                          response[c].details.engine = "rg"

\* A failure whose phrase is in upper case fell back, and one without any
\* phrase was returned.
C4_Witness ==
    \E c \in CallIds :
        /\ exits[c] # <<>>
        /\ procs[c][1].cmd = "colgrep"
        /\ exits[c][1].stderr = Str("sh: colgrep: command NOT FOUND")
        /\ ~exits[c][1].killed
        /\ Len(procs[c]) >= 2
        /\ pc[c] = "returned"

(***************************************************************************)
(* The gate.                                                               *)
(***************************************************************************)
\* The calls whose acquisition resolved and whose release was not called.
Holders == {c \in Granted : c \notin resolved}

\* The expiry timer of c fired, and no tool_result cleared its entry since.
Expired(c) == c \in timers /\ c \notin armed

\* A gated operation is running: its tool_call handler returned and its
\* tool_result has not come.
GatedRunning(c) ==
    /\ isGated(event[c])
    /\ c \in Granted
    /\ pc[c] \in {"called", "tool", "colgrep", "rg", "rgP", "returned"}

\* C5: at most one call holds the gate, and the releases map holds exactly the
\* holders.
C5_MutualExclusion ==
    /\ Cardinality(Holders) <= 1
    /\ releases = Holders

\* One call holds the gate while another waits for it.
C5_Witness ==
    \E a, b \in CallIds : a \in releases /\ Waiting(b)

\* The tool of a gated operation is executing.
GatedExecuting(c) ==
    GatedRunning(c) /\ pc[c] \in {"tool", "colgrep", "rg", "rgP"}

C8_EventuallyAcquires ==
    \A c \in CallIds : Waiting(c) ~> (c \in Granted)

\* A holder whose tool_result has not come was released by its timer, and the
\* call behind it acquired the gate.
C8_Witness ==
    \E a, b \in CallIds :
        /\ InChain(a) /\ InChain(b) /\ Position(a) < Position(b)
        /\ pc[a] # "done"
        /\ Expired(a) /\ a \in resolved
        /\ b \in Granted

\* C9, as stated: once the tool_result of a grep request with a query has been
\* handled, the request does not hold the gate, and an acquisition it made
\* has been released once.
C9_ReleasedOnCompletion ==
    \A c \in CallIds :
        (GrepCall(c) /\ TruthyStr(event[c].input, "query") /\ pc[c] = "done") =>
            /\ c \notin releases
            /\ c \in Granted => relCount[c] = 1

\* C10, as stated: a grep call that execute does not send to colgrep never
\* enters the gate.
C10_LexicalExempt ==
    \A c \in CallIds :
        (GrepCall(c) /\ ~routesToColgrep(event[c].input)) => ~InChain(c)
(***************************************************************************)
(* Properties of the adapters.                                             *)
(***************************************************************************)
\* The positions of the rg runs among the subprocesses launched for c.
RgRuns(c) == {k \in 1..Len(procs[c]) : procs[c][k].cmd = "rg"}

\* The first rg run of c is the subprocess launched at this position.
FirstRg(c) == Min(RgRuns(c))

PcreWords == {Str("look-around"), Str("backreference"), Str("pcre2")}

\* text mentions a regex feature that needs PCRE2, in any letter case.
MentionsPcre(text) == \E w \in PcreWords : Includes(ToLowerCase(text), w)

\* execute of c returned (the host may have delivered its tool_result since).
Returned(c) == pc[c] \in {"returned", "done"} /\ response[c] # NoResponse

\* C11: the first rg run is re-run, once, with -P prepended to the same
\* arguments exactly when it exited with code 2, its stderr mentions
\* look-around, backreference or pcre2 in any letter case, and fixed_strings
\* was not requested; a retried run that exits with code 2 is returned as an
\* error and nothing more is launched.
C11_PcreRetry ==
    \A c \in CallIds :
        RgRuns(c) # {} =>
            LET first == FirstRg(c)
                retried == Len(procs[c]) > first
            IN
            /\ Cardinality(RgRuns(c)) <= 2
            /\ Len(exits[c]) >= first =>
                   (retried <=>
                       /\ exits[c][first].code = 2
                       /\ MentionsPcre(exits[c][first].stderr)
                       /\ ~TruthyBool(frame[c].params, "fixed_strings"))
            /\ retried =>
                   /\ Len(procs[c]) = first + 1
                   /\ procs[c][first + 1] =
                          [cmd |-> "rg",
                           args |-> <<Str("-P")>> \o procs[c][first].args,
                           timeout |-> 30000]
            /\ (/\ Len(exits[c]) = first + 1
                /\ ~exits[c][first + 1].killed
                /\ exits[c][first + 1].code = 2) =>
                   /\ Returned(c)
                   /\ response[c].isError

\* A retry, asked for in capital letters, that failed with code 2 again.
C11_Witness ==
    \E c \in CallIds :
        /\ RgRuns(c) # {}
        /\ Len(exits[c]) = FirstRg(c) + 1
        /\ Includes(exits[c][FirstRg(c)].stderr, Str("Backreference"))
        /\ ~exits[c][FirstRg(c) + 1].killed
        /\ exits[c][FirstRg(c) + 1].code = 2
        /\ Returned(c)

\* The result of the last subprocess run of c that ended.
LastExit(c) == exits[c][Len(exits[c])]

\* The command of the last subprocess run of c that ended.
LastCmd(c) == procs[c][Len(exits[c])].cmd

\* The response is a success reporting zero results.
ZeroResultSuccess(r) ==
    /\ ~r.isError
    /\ Has(r, "details")
    /\ r.details.resultCount = 0

\* C12: a zero-match outcome is a success with zero results: an rg run that
\* exits with code 1, or whose output without the statistics is empty, and a
\* colgrep run that exits with 0 and prints nothing or "No results found";
\* an rg run that exits with code 2 and is not retried yields an error
\* response carrying its stderr text.
C12_ZeroMatchIsSuccess ==
    \A c \in CallIds :
        (Returned(c) /\ exits[c] # <<>> /\ ~LastExit(c).killed) =>
            LET run == LastExit(c) IN
            /\ (LastCmd(c) = "rg" /\ run.code = 1) =>
                   ZeroResultSuccess(response[c])
            /\ (/\ LastCmd(c) = "rg"
                /\ run.code = 0
                /\ parseAndStripRgStats(Trim(run.stdout)).clean = <<>>) =>
                   ZeroResultSuccess(response[c])
            /\ (LastCmd(c) = "rg" /\ run.code = 2) =>
                   /\ response[c].isError
                   /\ Includes(response[c].text, Trim(run.stderr))
            /\ (/\ LastCmd(c) = "colgrep"
                /\ run.code = 0
                /\ \/ Trim(run.stdout) = <<>>
                   \/ StartsWith(Trim(run.stdout), Str("No results found"))) =>
                   /\ ZeroResultSuccess(response[c])
                   /\ Len(procs[c]) = 1

\* An rg run that found nothing and exited with code 1 after printing its
\* statistics.
C12_Witness ==
    \E c \in CallIds :
        /\ Returned(c)
        /\ exits[c] # <<>>
        /\ LastCmd(c) = "rg"
        /\ ~LastExit(c).killed
        /\ LastExit(c).code = 1
        /\ LastExit(c).stdout # <<>>
        /\ response[c].details.filesSearched = 4

\* The response carries fallback = true in its details.
CarriesFallbackFlag(r) ==
    /\ Has(r, "details")
    /\ Has(r.details, "fallback")
    /\ r.details.fallback = TRUE

\* execute of c went through execRipgrepFallback.
TookFallbackPath(c) == frame[c] # NoFrame /\ frame[c].fallback

\* C13, as stated: a response returned through the fallback path carries
\* fallback = true whatever the outcome of the lexical run, and no other
\* response carries it.
C13_FallbackFlag ==
    \A c \in CallIds :
        Returned(c) => (CarriesFallbackFlag(response[c]) <=> TookFallbackPath(c))

\* The header tag of an engine.
ScopeTag(engine) == IF engine = "rg" THEN Str("s") ELSE Str("ix")

\* A files count as the header is to print it: "?" when unknown.
CountLabel(n) == IF n < 0 THEN Str("?") ELSE NatToStr(n)

\* The one-line header of a successful response with these details.
ExpectedHeader(details) ==
    Str("[") \o ScopeTag(details.engine) \o Str(":")
    \o CountLabel(details.filesSearched) \o Str(" m:")
    \o NumToStr(details.filesMatched) \o Str(" complete]")

\* C14, as stated, in what it says of the first line: the text of a
\* successful response starts with the line "[<tag>:<N> m:<M> complete]",
\* with tag s for rg and ix for colgrep, N the files searched/indexed count or
\* "?" when it is unknown, and M the files-matched count.
C14_ResponseHeader ==
    \A c \in CallIds :
        (Returned(c) /\ ~response[c].isError) =>
            StartsWith(response[c].text,
                       ExpectedHeader(response[c].details) \o <<"\n">>)

\* The values that follow flag in args, in order.
RECURSIVE FlagValues(_, _)
FlagValues(args, flag) ==
    IF Len(args) < 2 THEN <<>>
    ELSE IF args[1] = flag
         THEN <<args[2]>> \o FlagValues(Tail(Tail(args)), flag)
         ELSE FlagValues(Tail(args), flag)

\* The globs passed to the first subprocess of c.
GlobPieces(c) == FlagValues(procs[c][1].args, Str("-g"))

\* The number of ch among the first n characters of s.
CountChar(s, n, ch) == Cardinality({k \in 1..n : s[k] = ch})

\* Every "}" of s closes an earlier "{" and every "{" is closed.
BraceBalanced(s) ==
    /\ \A n \in 1..Len(s) : CountChar(s, n, "{") >= CountChar(s, n, "}")
    /\ CountChar(s, Len(s), "{") = CountChar(s, Len(s), "}")

\* Position i of s lies inside a {...} group: a "{" before i is not closed
\* before i (a group left open counts as running to the end of s).
InsideGroup(s, i) ==
    \E l \in 1..(i - 1) :
        /\ s[l] = "{"
        /\ ~\E r \in (l + 1)..(i - 1) :
               s[r] = "}" /\ BraceBalanced(SubSeq(s, l, r))

\* The commas of s outside every {...} group.
OuterCommas(s) == {i \in 1..Len(s) : s[i] = "," /\ ~InsideGroup(s, i)}

\* The trimmed, non-empty pieces of s between the cuts, from start on.
RECURSIVE PiecesFrom(_, _, _)
PiecesFrom(s, cuts, start) ==
    LET later == {i \in cuts : i > start}
        end == IF later = {} THEN Len(s) + 1 ELSE Min(later)
        g == Trim(SubSeq(s, start + 1, end - 1))
        here == IF g # <<>> THEN <<g>> ELSE <<>>
    IN  IF later = {} THEN here ELSE here \o PiecesFrom(s, cuts, end)

\* A request with a glob whose rg arguments were built.
GlobApplied(c) ==
    /\ GrepCall(c)
    /\ Has(event[c].input, "glob")
    /\ procs[c] # <<>>

RECURSIVE Ascending(_)
Ascending(S) ==
    IF S = {} THEN <<>> ELSE <<Min(S)>> \o Ascending(S \ {Min(S)})

\* The lines of the rg output the offset is applied to: the output of the
\* last run without its statistics.
OffsetInput(c) ==
    SplitOn(parseAndStripRgStats(Trim(LastExit(c).stdout)).clean, "\n")

\* The lines of the response text after its header line.
BodyLines(c) == Tail(SplitOn(response[c].text, "\n"))

MatchPositions(lines) == {p \in 1..Len(lines) : isMatchLine(lines[p])}

HeadingPositions(lines) == {p \in 1..Len(lines) : isHeadingLine(lines[p])}

\* The positions of the matched lines that remain once the first k are
\* suppressed.
KeptPositions(lines, k) ==
    {p \in MatchPositions(lines) :
        Cardinality({q \in MatchPositions(lines) : q <= p}) > k}

\* The position of the heading of the file the line at p belongs to.
HeadingOf(lines, p) ==
    LET before == {h \in HeadingPositions(lines) : h < p}
    IN  CHOOSE h \in before : \A g \in before : g <= h

\* The positions of the headings of the files that keep a match.
KeptHeadings(lines, k) ==
    {HeadingOf(lines, p) : p \in KeptPositions(lines, k)}

\* An rg search with a positive offset ended with matches in its output.
OffsetApplied(c) ==
    /\ GrepCall(c)
    /\ Returned(c)
    /\ exits[c] # <<>>
    /\ LastCmd(c) = "rg"
    /\ ~LastExit(c).killed
    /\ LastExit(c).code = 0
    /\ effectiveOffset(frame[c].params) > 0

\* C16: with offset k > 0 over output with n matched lines, the first k
\* matched lines are suppressed and the match count returned is n - k when
\* k < n; the headings in the output are those of the files that keep a
\* match, each immediately before the first kept match of its file; when
\* k >= n the response is a success with zero results.
C16_LexicalOffset ==
    \A c \in CallIds :
        OffsetApplied(c) =>
            LET lines == OffsetInput(c)
                body == BodyLines(c)
                k == frame[c].params.offset
                n == Cardinality(MatchPositions(lines))
                matches == SelectSeq(lines, isMatchLine)
                headings == Ascending(KeptHeadings(lines, k))
                shown == Ascending(HeadingPositions(body))
            IN
            /\ ~response[c].isError
            /\ k >= n => ZeroResultSuccess(response[c])
            /\ k < n =>
                   /\ response[c].details.resultCount = n - k
                   /\ SelectSeq(body, isMatchLine) = SubSeq(matches, k + 1, n)
                   /\ Len(shown) = Len(headings)
                   /\ \A j \in 1..Len(shown) :
                          /\ body[shown[j]] = lines[headings[j]]
                          /\ shown[j] < Len(body)
                          /\ body[shown[j] + 1] =
                                 lines[Min({p \in KeptPositions(lines, k) :
                                               HeadingOf(lines, p) = headings[j]})]

\* An offset that suppresses a whole file and a part of the next one.
C16_Witness ==
    \E c \in CallIds :
        /\ OffsetApplied(c)
        /\ ~response[c].isError
        /\ Cardinality(HeadingPositions(BodyLines(c)))
               < Cardinality(HeadingPositions(OffsetInput(c)))
        /\ \E p \in MatchPositions(BodyLines(c)) :
               p > 1 /\ BodyLines(c)[p - 1] # <<>>
                     /\ ~isHeadingLine(BodyLines(c)[p - 1])
        /\ response[c].details.resultCount = 2

\* The fallback rg run of c, or its -P retry, is executing.
FallbackRunning(c) == TookFallbackPath(c) /\ pc[c] \in {"rg", "rgP"}

\* C17, as stated, in its last sentence: the fallback rg subprocess of a
\* query-bearing request never executes while the request holds the gate.
C17_ReleasedBeforeFallback ==
    \A c \in CallIds :
        (GrepCall(c) /\ FallbackRunning(c)) => c \notin Holders

\* C18, as stated: after a subprocess run of a request was killed, no further
\* subprocess is launched for it (no -P retry, no fallback), execute returns,
\* and its response is an error.
C18_KilledRunIsFinal ==
    \A c \in CallIds :
        \A k \in 1..Len(exits[c]) :
            exits[c][k].killed =>
                /\ Len(procs[c]) = k
                /\ Returned(c)
                /\ response[c].isError

\* The state of the gate: the promise chain and the tickets held.
gateState == <<chain, resolved, grantOrder, releases, relCount>>

\* C19: the release of a ticket is called at most once, and only for a ticket
\* that was acquired; no timer is pending for a ticket that is not held, so
\* an expiry after a release does nothing; the first tool_result of a call
\* whose ticket is not held (released by its timer, or never acquired) leaves
\* the gate as it is.
C19_ReleaseIdempotent ==
    /\ [](\A c \in CallIds :
             /\ relCount[c] <= 1
             /\ relCount[c] = 1 <=> c \in resolved
             /\ c \in resolved => (c \in Granted /\ c \notin releases)
             /\ c \in armed => c \in releases)
    /\ [][\A c \in CallIds :
             (pc[c] # "done" /\ pc'[c] = "done" /\ c \notin releases)
                 => UNCHANGED gateState]_vars

\* The tool_result of a call that never held a ticket was handled while it
\* waited behind the holder, and the holder still holds.
C19_Witness ==
    \E c, d \in CallIds :
        /\ pc[c] = "done"
        /\ Waiting(c)
        /\ d \in Holders
        /\ relCount[c] = 0

\* The orders in which execute may have launched its subprocesses so far.
LaunchOrders ==
    {<<>>, <<"colgrep">>, <<"colgrep", "rg">>, <<"colgrep", "rg", "rg">>,
     <<"rg">>, <<"rg", "rg">>}

\* execute of c awaits a subprocess.
AwaitsSubprocess(c) == pc[c] \in {"colgrep", "rg", "rgP"}

\* C20: execute launches at most three subprocesses, in the order colgrep, rg,
\* rg -P: colgrep at most once and first, rg at most twice, the second run
\* being the first with -P prepended; and when every subprocess run ends,
\* execute ends in a response.
C20_BoundedLaunches ==
    /\ [](\A c \in CallIds :
             /\ Commands(c) \in LaunchOrders
             /\ RgRuns(c) # {} =>
                    /\ procs[c][FirstRg(c)].args[1] # Str("-P")
                    /\ \A k \in RgRuns(c) \ {FirstRg(c)} :
                           procs[c][k].args
                               = <<Str("-P")>> \o procs[c][FirstRg(c)].args)
    /\ \A c \in CallIds : AwaitsSubprocess(c) ~> Returned(c)

\* A request that ran colgrep, rg and rg -P, and got its response.
C20_Witness ==
    \E c \in CallIds :
        /\ Commands(c) = <<"colgrep", "rg", "rg">>
        /\ Len(exits[c]) = 3
        /\ Returned(c)

(***************************************************************************)
(* Properties of the argument lists.                                       *)
(***************************************************************************)
\* args holds the flag.
HasFlag(args, flag) == \E k \in 1..Len(args) : args[k] = flag

\* The pattern holds a line feed, or a backslash followed by n.
PatternHasNewline(pattern) ==
    \E k \in 1..Len(pattern) :
        \/ pattern[k] = "\n"
        \/ k < Len(pattern) /\ pattern[k] = "\\" /\ pattern[k + 1] = "n"

\* The rg arguments of a pattern search were built.
RgArgsBuilt(c) ==
    /\ GrepCall(c)
    /\ procs[c] # <<>>
    /\ procs[c][1].cmd = "rg"

\* C21, as stated: rg is passed --multiline exactly when the multiline
\* parameter is true or the pattern holds a literal or an escaped newline,
\* whether the multiline parameter is absent, true or false.
C21_MultilineFlag ==
    \A c \in CallIds :
        RgArgsBuilt(c) =>
            LET in == event[c].input IN
            HasFlag(procs[c][1].args, Str("--multiline"))
                <=> \/ TruthyBool(in, "multiline")
                    \/ PatternHasNewline(in.pattern)


\* The matched-files list of the response of c, when it carries one.
ListsFiles(c) ==
    /\ Returned(c)
    /\ ~response[c].isError
    /\ Has(response[c], "details")
    /\ Has(response[c].details, "files")

MatchedFiles(c) == response[c].details.files

\* The position in text where s first appears.
FirstAppearance(text, s) ==
    Min({i \in 1..(Len(text) - Len(s) + 1) : SubSeq(text, i, i + Len(s) - 1) = s})

\* C22, as stated: the matched-files list of every successful response holds
\* no string twice and is in the order of first appearance in the raw output
\* of the engine, for the rg adapter and for the colgrep adapter.
C22_MatchedFilesDistinctInOrder ==
    \A c \in CallIds :
        ListsFiles(c) =>
            LET files == MatchedFiles(c)
                raw == LastExit(c).stdout
            IN  \A i, j \in 1..Len(files) :
                    i < j =>
                        /\ files[i] # files[j]
                        /\ FirstAppearance(raw, files[i]) < FirstAppearance(raw, files[j])

\* The rg half of C22 holds: see RgFilesDistinctInOrder.
RgFilesDistinctInOrder ==
    \A c \in CallIds :
        (ListsFiles(c) /\ LastCmd(c) = "rg") =>
            LET files == MatchedFiles(c)
                raw == LastExit(c).stdout
            IN  \A i, j \in 1..Len(files) :
                    i < j =>
                        /\ files[i] # files[j]
                        /\ FirstAppearance(raw, files[i]) < FirstAppearance(raw, files[j])

\* An rg response that lists two files out of an output with a repeated heading.
RgListsTwoFiles ==
    \E c \in CallIds :
        /\ ListsFiles(c)
        /\ LastCmd(c) = "rg"
        /\ LastExit(c).stdout = RgRepeatSample
        /\ MatchedFiles(c) = <<Str("src/b.ts"), Str("src/a.ts")>>

FilterFields == {"glob", "exclude", "exclude_dir"}

\* The flag that carries the pieces of a filter spec to the engine.
FilterFlag(cmd, field) ==
    IF cmd = "rg" THEN Str("-g")
    ELSE IF field = "glob" THEN Str("--include")
    ELSE IF field = "exclude" THEN Str("--exclude")
    ELSE Str("--exclude-dir")

\* The argument one piece of a filter spec becomes.
FilterArg(cmd, field, piece) ==
    IF cmd # "rg" \/ field = "glob" THEN piece
    ELSE IF field = "exclude" THEN Str("!") \o piece
    ELSE Str("!") \o piece \o Str("/**")

\* A request with the filter spec whose engine arguments were built.
FilterApplied(c, field) ==
    /\ GrepCall(c)
    /\ Has(event[c].input, field)
    /\ procs[c] # <<>>

\* C23, as stated: glob, exclude and exclude_dir are split by one rule in both
\* adapters, at the commas outside brace groups, the pieces trimmed and the
\* empty ones dropped; an exclude_dir of "{a,b}" gives a single exclusion.
C23_FiltersSplitAlike ==
    \A c \in CallIds : \A field \in FilterFields :
        FilterApplied(c, field) =>
            LET input == event[c].input[field]
                cmd == procs[c][1].cmd
                passed == FlagValues(procs[c][1].args, FilterFlag(cmd, field))
                pieces == PiecesFrom(input, OuterCommas(input), 0)
            IN  /\ passed = [k \in 1..Len(pieces) |-> FilterArg(cmd, field, pieces[k])]
                /\ (field = "exclude_dir" /\ input = Str("{a,b}")) => Len(passed) = 1

\* glob and exclude are split by that rule in both adapters.
GlobAndExcludeSplitAlike ==
    \A c \in CallIds : \A field \in {"glob", "exclude"} :
        FilterApplied(c, field) =>
            LET input == event[c].input[field]
                cmd == procs[c][1].cmd
                passed == FlagValues(procs[c][1].args, FilterFlag(cmd, field))
                pieces == PiecesFrom(input, OuterCommas(input), 0)
            IN  passed = [k \in 1..Len(pieces) |-> FilterArg(cmd, field, pieces[k])]

\* An exclude_dir of "{a,b}" reaches each engine as two exclusions.
ExcludeDirGroupCutInTwo ==
    /\ FilterApplied(1, "exclude_dir")
    /\ event[1].input.exclude_dir = Str("{a,b}")
    /\ LET args == procs[1][1].args IN
       IF procs[1][1].cmd = "rg"
       THEN FlagValues(args, Str("-g")) = <<Str("!{a/**"), Str("!b}/**")>>
       ELSE FlagValues(args, Str("--exclude-dir")) = <<Str("{a"), Str("b}")>>
====
